---- MODULE Spec2Model ----
(***************************************************************************)
(* The physical memory map builder of fmios (src/src/multiboot.c): the     *)
(* page map table of struct kconfig, the insertion routine mb_pmap_add     *)
(* with its shift primitive mb_pmap_shift, and the boot sequence           *)
(* mb_init -> kconfig_alloc -> mb_pmap_init -> init_memory.                *)
(*                                                                         *)
(* Two specifications share the state:                                     *)
(*   Spec      a seeded table that receives arbitrary mb_pmap_add calls;   *)
(*   SpecBoot  one run of mb_init on a Multiboot2 information block.       *)
(***************************************************************************)
EXTENDS Integers, Sequences, FiniteSets, TLC

(***************************************************************************)
(* Program constants.                                                      *)
(***************************************************************************)
MEMORY_PMAP_UNUSED == 0
MEMORY_PMAP_KERNEL == 1
MEMORY_PMAP_LOADER == 2
MEMORY_PMAP_MODULE == 4
MULTIBOOT_MEMORY_AVAILABLE == 1
MULTIBOOT_MEMORY_RESERVED == 2
MULTIBOOT_TAG_TYPE_CMDLINE == 1
MULTIBOOT_TAG_TYPE_MODULE == 3
MULTIBOOT_TAG_TYPE_BASIC_MEMINFO == 4
MULTIBOOT_TAG_TYPE_MMAP == 6
MULTIBOOT2_BOOTLOADER_MAGIC == 920085129
PAGE_SIZE == 4096
\* sizeof(struct kconfig) and sizeof(struct pmap_entry) of the 32 bit build
SIZEOF_KCONFIG == 20
SIZEOF_PMAP_ENTRY == 16

(***************************************************************************)
(* Bounds of the model.                                                    *)
(***************************************************************************)
\* The all-ones value of the word that holds start, end, type and flags
\* (uint32_t in the source).  TLC integers are 32 bit signed, so the model
\* word is narrower than the source's; every page number and address the
\* model draws is far below it, and arithmetic wraps modulo WORD_MAX + 1.
WORD_MAX == 1073741823
\* Highest page number of the small memory maps of Spec.
MaxPage == 6
\* Number of mb_pmap_add calls made on one table in Spec.
MaxCalls == 3
\* Largest number of pages one claim of Spec covers.
MaxClaimLen == 3

\* capacity of the tables the shift routines are tried on
MaxSlots == 5

WORD == WORD_MAX + 1
\* ~(0) stored into the 32 bit flags field
MEMORY_PMAP_END == WORD_MAX

Inc(x) == (x + 1) % WORD
Dec(x) == (x - 1) % WORD

PAGE_NUM(addr) == addr \div PAGE_SIZE

Usages == {MEMORY_PMAP_KERNEL, MEMORY_PMAP_LOADER, MEMORY_PMAP_MODULE}

\* struct pmap_entry
PmapEntry(s, e, t, f) == [start |-> s, end |-> e, type |-> t, flags |-> f]
\* an entry as memset leaves it
ZeroEntry == PmapEntry(0, 0, 0, 0)

VARIABLES
    entry,      \* kconfig->pmap.entry[0 .. count]; entry[count] is the sentinel
    count,      \* kconfig->pmap.count, the capacity of the table
    ub,         \* TRUE once a call has read or written past entry[count]
    seeded,     \* the table as it was right after seeding
    prev,       \* the table before the last mb_pmap_add call
    claim,      \* the argument of the last mb_pmap_add call
    ret,        \* the value the last mb_pmap_add call returned
    path,       \* the branch the last mb_pmap_add call ended in
    hit,        \* the index the last mb_pmap_add call stopped at
    ncalls,     \* number of mb_pmap_add calls made so far
    allValid,   \* every claim so far lay inside one Available/Unused entry
    allStrict,  \* every claim so far lay strictly inside such an entry
    before,     \* the call before the last: claim, path, allValid after it
    pc,         \* position of mb_init
    boot,       \* the boot information handed to mb_init
    modi,       \* index of the next module tag mb_pmap_init visits
    kcfg,       \* page of the kconfig block chosen by mb_alloc_pages
    result,     \* return value of mb_init, -1 while it runs
    inits,      \* number of init_memory calls
    order,      \* the steps the map builder has taken, with their results
    shift,      \* one pmap_shift experiment: the table, the call, the results
    pool_offset, \* kmalloc.c: bytes of memory_pool handed out so far
    blocks,     \* the kmalloc calls so far: size asked for, pointer returned
    frees,      \* number of kfree calls so far
    pindex,     \* init.c: the loop variable "index" of __pmap_init
    mod         \* init.c: the loop variable "mod" of __pmap_init

\* the variables of the map builder
builderVars == <<entry, count, ub, seeded, prev, claim, ret, path, hit, ncalls,
                 allValid, allStrict, before, pc, boot, modi, kcfg, result,
                 inits, order>>

\* the variables of the allocator of kmalloc.c
poolVars == <<pool_offset, blocks, frees>>

\* the loop variables of __pmap_init of init.c
initVars == <<pindex, mod>>

vars == <<entry, count, ub, seeded, prev, claim, ret, path, hit, ncalls,
          allValid, allStrict, before, pc, boot, modi, kcfg, result, inits,
          order, shift, pool_offset, blocks, frees, pindex, mod>>

(***************************************************************************)
(* mb_pmap_shift                                                           *)
(***************************************************************************)
\* The scan "while (entries[index+1].flags != MEMORY_PMAP_END) index++":
\* the absolute index of the first slot after base whose flags are END,
\* or -1 when the scan leaves the table (base is the sentinel itself).
ShiftScan(t, cnt, base) ==
    LET stops == {j \in (base + 1)..cnt : t[j].flags = MEMORY_PMAP_END}
    IN  IF stops = {} THEN -1
        ELSE CHOOSE j \in stops : \A k \in stops : j <= k

\* The copy loop of mb_pmap_shift run in ascending index order.
RECURSIVE ShiftUp(_, _, _, _, _)
ShiftUp(t, base, by, index, last) ==
    IF index <= last
    THEN ShiftUp(IF t[base + index - by].type # 0
                 THEN [t EXCEPT ![base + index] = t[base + index - by]]
                 ELSE t,
                 base, by, index + 1, last)
    ELSE t

ShiftLoopAscending(t, base, by, index) == ShiftUp(t, base, by, by, index)

\* The copy loop "while ((index-count) >= 0) { if (type) memcpy; index--; }"
\* with index relative to base, copying in descending index order.
RECURSIVE ShiftLoop(_, _, _, _)
ShiftLoop(t, base, by, index) ==
    IF index - by >= 0
    THEN ShiftLoop(IF t[base + index - by].type # 0
                   THEN [t EXCEPT ![base + index] = t[base + index - by]]
                   ELSE t,
                   base, by, index - 1)
    ELSE t

\* mb_pmap_shift(&entries[base], by): ok is the return value, oob tells that
\* the scan ran past the sentinel.
mb_pmap_shift(t, cnt, base, by) ==
    LET stop == ShiftScan(t, cnt, base)
        index == stop - 1 - base
    IN  IF stop = -1 THEN [tbl |-> t, ok |-> FALSE, oob |-> TRUE]
        ELSE IF index = 0 THEN [tbl |-> t, ok |-> FALSE, oob |-> FALSE]
        ELSE [tbl |-> ShiftLoop(t, base, by, index), ok |-> TRUE, oob |-> FALSE]

\* pmap_shift of malloc.c: the same scan, then "index = total - count;
\* while (index >= 0) { if (type) memcpy(&entries[index+count],
\* &entries[index]); index--; }".
RECURSIVE MallocShiftLoop(_, _, _, _)
MallocShiftLoop(t, base, by, index) ==
    IF index >= 0
    THEN MallocShiftLoop(IF t[base + index].type # 0
                         THEN [t EXCEPT ![base + index + by] = t[base + index]]
                         ELSE t,
                         base, by, index - 1)
    ELSE t

malloc_pmap_shift(t, cnt, base, by) ==
    LET stop == ShiftScan(t, cnt, base)
        total == stop - 1 - base
    IN  IF stop = -1 THEN [tbl |-> t, ok |-> FALSE, oob |-> TRUE]
        ELSE IF total = 0 THEN [tbl |-> t, ok |-> FALSE, oob |-> FALSE]
        ELSE [tbl |-> MallocShiftLoop(t, base, by, total - by),
              ok |-> TRUE, oob |-> FALSE]

\* pmap_shift of init.c: the same scan, then count passes that each move
\* entries[0 .. total-1] up by one slot, in descending index order.
RECURSIVE InitShiftPass(_, _, _)
InitShiftPass(t, base, index) ==
    IF index >= 0
    THEN InitShiftPass(IF t[base + index].type # 0
                       THEN [t EXCEPT ![base + index + 1] = t[base + index]]
                       ELSE t,
                       base, index - 1)
    ELSE t

RECURSIVE InitShiftLoop(_, _, _, _)
InitShiftLoop(t, base, by, total) ==
    IF by = 0 THEN t
    ELSE InitShiftLoop(InitShiftPass(t, base, total - 1), base, by - 1, total)

init_pmap_shift(t, cnt, base, by) ==
    LET stop == ShiftScan(t, cnt, base)
        total == stop - 1 - base
    IN  IF stop = -1 THEN [tbl |-> t, ok |-> FALSE, oob |-> TRUE]
        ELSE IF total = 0 THEN [tbl |-> t, ok |-> FALSE, oob |-> FALSE]
        ELSE [tbl |-> InitShiftLoop(t, base, by, total),
              ok |-> TRUE, oob |-> FALSE]

(***************************************************************************)
(* mb_pmap_add                                                             *)
(***************************************************************************)
\* The three "continue" tests of the loop: entry index is skipped.
Skipped(t, e, index) ==
    \/ t[index].type # MULTIBOOT_MEMORY_AVAILABLE
    \/ e.start > Inc(t[index].end)
    \/ e.end < t[index].start

\* "Prevent page overlap for pages with different types"
Overlap(t, e, index) ==
    \/ /\ (e.start <= t[index].end \/ e.end >= t[index].start)
       /\ t[index].flags # 0
       /\ t[index].flags # e.flags
    \/ /\ e.end >= t[index + 1].start
       /\ t[index + 1].flags # 0
       /\ t[index].flags # e.flags

\* "New entry is at the tail of the current map"
AtTail(t, e, index) ==
    \/ e.start = t[index].end
    \/ Dec(e.start) = t[index].end

\* "Opertunistic merging with existing runs"
Mergeable(t, e, index) ==
    /\ e.flags = t[index + 1].flags
    /\ Inc(e.end) = t[index + 1].start

Outcome(t, r, p, i, o) == [tbl |-> t, ret |-> r, path |-> p, index |-> i, oob |-> o]

\* "Have to split the region": lines 532-552, entered with the table t that
\* the tail test may already have changed.
SplitAt(t, cnt, e, index) ==
    LET sh == mb_pmap_shift(t, cnt, index + 1, 2)
        s  == sh.tbl
        t1 == [s EXCEPT ![index + 1] = PmapEntry(e.start, e.end, e.type, e.flags)]
        t2 == [t1 EXCEPT ![index + 2] =
                  PmapEntry(Inc(e.end), t1[index].end, t1[index].type, t1[index].flags)]
        t3 == [t2 EXCEPT ![index].end = Dec(t2[index + 1].start)]
    IN  IF sh.oob THEN Outcome(t, 0, "oob", index, TRUE)
        ELSE IF ~sh.ok THEN Outcome(t, 0, "noshift", index, FALSE)
        ELSE Outcome(t3, index, "split", index, FALSE)

\* The body of the loop for the first entry that is not skipped.
AddAt(t, cnt, e, index) ==
    IF Overlap(t, e, index) THEN Outcome(t, 0, "overlap", index, FALSE)
    ELSE IF e.start = t[index].start
    THEN IF e.flags = t[index].flags THEN Outcome(t, index, "same", index, FALSE)
         ELSE LET sh == mb_pmap_shift(t, cnt, index, 1)
                  s  == sh.tbl
                  t1 == [s EXCEPT ![index] = PmapEntry(e.start, e.end, e.type, e.flags)]
                  t2 == [t1 EXCEPT ![index + 1].start = Inc(e.end)]
              IN  IF ~sh.ok THEN Outcome(t, 0, "noshift", index, FALSE)
                  ELSE Outcome(t2, index, "head", index, FALSE)
    ELSE IF AtTail(t, e, index) /\ e.flags = t[index].flags
    THEN Outcome([t EXCEPT ![index].end = e.end, ![index + 1].start = Inc(e.end)],
                 index, "join", index, FALSE)
    ELSE IF AtTail(t, e, index) /\ Mergeable(t, e, index)
    THEN SplitAt([t EXCEPT ![index + 1].start = e.start], cnt, e, index)
    ELSE SplitAt(t, cnt, e, index)

\* mb_pmap_add(pmap, entry): the loop over index = 0 .. count-1.
mb_pmap_add(t, cnt, e) ==
    LET cand == {i \in 0..(cnt - 1) : ~Skipped(t, e, i)}
    IN  IF cand = {} THEN Outcome(t, cnt, "nomatch", cnt, FALSE)
        ELSE AddAt(t, cnt, e, CHOOSE i \in cand : \A k \in cand : i <= k)

(***************************************************************************)
(* The boot information and the capacity planner                           *)
(***************************************************************************)
\* One entry of the Multiboot2 memory map tag, in bytes.
MmapEntry(a, l, t) == [addr |-> a, len |-> l, type |-> t]
\* A memory map entry covering the pages first .. last.
PageRegion(first, last, t) ==
    MmapEntry(first * PAGE_SIZE, (last - first + 1) * PAGE_SIZE, t)

\* One tag of the Multiboot2 information block: its type and the two 32 bit
\* words that follow the tag header (mod_start and mod_end of a module tag,
\* mem_lower and mem_upper of a basic memory tag).
Tag(ty, w8, w12) == [type |-> ty, w8 |-> w8, w12 |-> w12]

\* mb_tag_find: the position of the first tag of the type, 0 for NULL.
mb_tag_find(b, ty) ==
    LET found == {i \in 1..Len(b.tags) : b.tags[i].type = ty}
    IN  IF found = {} THEN 0 ELSE CHOOSE i \in found : \A k \in found : i <= k

\* The tags visited by "tag = mb_tag_find(addr, MODULE); for (; tag;
\* tag = mb_tag_next(tag))": the first module tag and every tag after it up
\* to the end tag, whatever its type.
ModuleWalk(b) ==
    LET first == mb_tag_find(b, MULTIBOOT_TAG_TYPE_MODULE)
    IN  IF first = 0 THEN <<>> ELSE SubSeq(b.tags, first, Len(b.tags))

\* mb_pmap_count, Multiboot2 branch: 2 for basic memory information,
\* replaced by the number of entries of the memory map tag when there is
\* one, plus one per tag of the module walk, plus one for the kernel and one
\* for the boot information.
mb_pmap_count(b) ==
    LET basic == IF mb_tag_find(b, MULTIBOOT_TAG_TYPE_BASIC_MEMINFO) # 0
                 THEN 2 ELSE 0
        regions == IF mb_tag_find(b, MULTIBOOT_TAG_TYPE_MMAP) # 0
                   THEN Len(b.mmap) ELSE basic
    IN  regions + Len(ModuleWalk(b)) + 2

\* kconfig_alloc: "size_t count = (mb_pmap_count(addr, magic) * 2)"
PmapCapacity(b) == mb_pmap_count(b) * 2

\* What kconfig_alloc leaves in entry[0 .. count] before mb_pmap_init runs:
\* entry[0 .. count-1] zeroed by memset, entry[count].flags set to END, the
\* other fields of entry[count] never written (g is what the memory held).
BlankTable(cnt, g) ==
    [i \in 0..cnt |-> IF i = cnt THEN PmapEntry(g, g, g, MEMORY_PMAP_END)
                      ELSE ZeroEntry]

\* mb_pmap_init, the loop over the memory map tag (lines 604-615).
SeedMmap(t, mmap) ==
    [i \in DOMAIN t |->
        IF i < Len(mmap)
        THEN PmapEntry(PAGE_NUM(mmap[i + 1].addr),
                       Dec(PAGE_NUM(mmap[i + 1].addr + mmap[i + 1].len)),
                       mmap[i + 1].type, MEMORY_PMAP_UNUSED)
        ELSE t[i]]

(***************************************************************************)
(* Reading the table                                                       *)
(***************************************************************************)
\* The slots in use: below the sentinel and typed (memset leaves type 0).
Live(t, cnt) == {i \in 0..(cnt - 1) : t[i].type # 0}

\* The claim lies entirely inside one Available/Unused entry of the table.
ValidClaim(t, cnt, e) ==
    /\ e.type = MULTIBOOT_MEMORY_AVAILABLE
    /\ e.flags \in Usages
    /\ e.start <= e.end
    /\ \E i \in Live(t, cnt) :
          /\ t[i].type = MULTIBOOT_MEMORY_AVAILABLE
          /\ t[i].flags = MEMORY_PMAP_UNUSED
          /\ t[i].start <= e.start
          /\ e.end <= t[i].end

\* The entries the claim lies strictly inside of: Available/Unused, and the
\* claim touches neither boundary.
StrictHosts(t, cnt, e) ==
    {i \in Live(t, cnt) :
        /\ t[i].type = MULTIBOOT_MEMORY_AVAILABLE
        /\ t[i].flags = MEMORY_PMAP_UNUSED
        /\ t[i].start < e.start
        /\ e.end < t[i].end}

StrictClaim(t, cnt, e) ==
    ValidClaim(t, cnt, e) /\ StrictHosts(t, cnt, e) # {}

(***************************************************************************)
(* Spec: a seeded table receives mb_pmap_add calls                         *)
(***************************************************************************)
\* What the unwritten fields of the sentinel slot may hold.
Garbage == {0, WORD_MAX}

\* The memory maps of Spec, in pages 0 .. MaxPage: one Available region;
\* Reserved low memory below an Available region; two Available regions
\* with a Reserved one between them; two Available regions with a hole.
RawMaps ==
    { <<PageRegion(0, MaxPage, MULTIBOOT_MEMORY_AVAILABLE)>>,
      <<PageRegion(0, 1, MULTIBOOT_MEMORY_RESERVED),
        PageRegion(2, MaxPage, MULTIBOOT_MEMORY_AVAILABLE)>>,
      <<PageRegion(0, 2, MULTIBOOT_MEMORY_AVAILABLE),
        PageRegion(3, 3, MULTIBOOT_MEMORY_RESERVED),
        PageRegion(4, MaxPage, MULTIBOOT_MEMORY_AVAILABLE)>>,
      <<PageRegion(0, 1, MULTIBOOT_MEMORY_AVAILABLE),
        PageRegion(3, MaxPage, MULTIBOOT_MEMORY_AVAILABLE)>> }

\* The memory map tag: entry_size and entry_version follow its header.
MmapTag == Tag(MULTIBOOT_TAG_TYPE_MMAP, 24, 0)

\* A boot information block that holds only a memory map.
MapOnly(mmap) ==
    [magic |-> MULTIBOOT2_BOOTLOADER_MAGIC, addr |-> 0, len |-> 0,
     tags |-> <<MmapTag>>, mmap |-> mmap, kstart |-> 0, kend |-> 0]

Claims ==
    {c \in {PmapEntry(s, e, MULTIBOOT_MEMORY_AVAILABLE, f) :
                s \in 0..MaxPage, e \in 0..MaxPage, f \in Usages} :
        c.start <= c.end /\ c.end - c.start < MaxClaimLen}

NoClaim == PmapEntry(0, 0, 0, 0)

\* No shift experiment is run.
NotRun == [tbl |-> <<>>, ok |-> FALSE, oob |-> FALSE, ran |-> FALSE]
NoShift == [tbl |-> <<>>, cnt |-> 0, from |-> 0, by |-> 0,
            mb |-> NotRun, malloc |-> NotRun, init |-> NotRun]

Init ==
    \E mmap \in RawMaps, g \in Garbage :
        /\ boot = MapOnly(mmap)
        /\ count = PmapCapacity(boot)
        /\ entry = SeedMmap(BlankTable(count, g), mmap)
        /\ seeded = entry
        /\ prev = entry
        /\ claim = NoClaim
        /\ ret = 0
        /\ path = "none"
        /\ hit = 0
        /\ ncalls = 0
        /\ allValid = TRUE
        /\ allStrict = TRUE
        /\ before = [claim |-> NoClaim, path |-> "none", valid |-> FALSE]
        /\ ub = FALSE
        /\ shift = NoShift
        /\ pc = "table"
        /\ modi = 0
        /\ kcfg = 0
        /\ result = -1
        /\ inits = 0
        /\ order = <<>>
        /\ pool_offset = 0
        /\ blocks = <<>>
        /\ frees = 0
        /\ pindex = 0
        /\ mod = 0

\* One call mb_pmap_add(&kconfig->pmap, &e).  A call whose shift scans past
\* the sentinel has undefined behaviour: it may return either value.
Insert(e) ==
    \E out \in {mb_pmap_add(entry, count, e)} :
        /\ prev' = entry
        /\ claim' = e
        /\ entry' = out.tbl
        /\ path' = out.path
        /\ hit' = out.index
        /\ ub' = (ub \/ out.oob)
        /\ IF out.oob THEN ret' \in {0, 1} ELSE ret' = out.ret
        /\ ncalls' = ncalls + 1
        /\ allValid' = (allValid /\ ValidClaim(entry, count, e))
        /\ allStrict' = (allStrict /\ StrictClaim(entry, count, e))
        /\ before' = [claim |-> claim, path |-> path,
                      valid |-> ncalls > 0 /\ allValid]

Add ==
    /\ pc = "table"
    /\ ncalls < MaxCalls
    /\ ~ub
    /\ \E e \in Claims : Insert(e)
    /\ UNCHANGED <<count, shift, poolVars, initVars, seeded, pc, boot, modi, kcfg, result, inits, order>>

Next == Add

Spec == Init /\ [][Next]_vars

(***************************************************************************)
(* SpecBoot: one run of mb_init on a Multiboot2 information block          *)
(* (the build without CONFIG_ENABLE_MULTIBOOT1)                            *)
(***************************************************************************)
\* mb_pmap_init, basic memory information only (lines 585-597).
SeedBasic(t, meminfo) ==
    [t EXCEPT ![0] = PmapEntry(0, Dec(PAGE_NUM(meminfo.w8 * 1024)),
                               MULTIBOOT_MEMORY_AVAILABLE, MEMORY_PMAP_UNUSED),
              ![1] = PmapEntry(PAGE_NUM(1024 * 1024),
                               Dec(PAGE_NUM(meminfo.w12 * 1024)),
                               MULTIBOOT_MEMORY_AVAILABLE, MEMORY_PMAP_UNUSED)]

\* kconfig_alloc: "size += (count * sizeof(struct pmap_entry))"
KconfigSize(b) == SIZEOF_KCONFIG + PmapCapacity(b) * SIZEOF_PMAP_ENTRY

\* The module loop of mb_alloc_pages over the tags of the module walk.
RECURSIVE AllocPastModules(_, _, _, _)
AllocPastModules(walk, i, pstart, npages) ==
    IF i > Len(walk) THEN pstart
    ELSE IF PAGE_NUM(walk[i].w8) < pstart + npages /\ PAGE_NUM(walk[i].w8) > pstart
    THEN AllocPastModules(walk, i + 1, PAGE_NUM(walk[i].w12) + 1, npages)
    ELSE AllocPastModules(walk, i + 1, pstart, npages)

\* mb_alloc_pages(addr, magic, npages): the first page of the block.
mb_alloc_pages(b, npages) ==
    LET p0 == PAGE_NUM(b.kend) + 1
        p1 == IF PAGE_NUM(b.addr) < p0 + npages /\ PAGE_NUM(b.addr) > p0
              THEN PAGE_NUM(b.addr + b.len) + 1
              ELSE p0
    IN  AllocPastModules(ModuleWalk(b), 1, p1, npages)

\* The claims mb_pmap_init and kconfig_alloc build.
KernelClaim(b) ==
    PmapEntry(PAGE_NUM(b.kstart), PAGE_NUM(b.kend),
              MULTIBOOT_MEMORY_AVAILABLE, MEMORY_PMAP_KERNEL)
LoaderClaim(b) ==
    PmapEntry(PAGE_NUM(b.addr), PAGE_NUM(b.addr + b.len),
              MULTIBOOT_MEMORY_AVAILABLE, MEMORY_PMAP_LOADER)
ModuleClaim(tag) ==
    PmapEntry(PAGE_NUM(tag.w8), PAGE_NUM(tag.w12),
              MULTIBOOT_MEMORY_AVAILABLE, MEMORY_PMAP_MODULE)
SelfClaim(b, page) ==
    PmapEntry(PAGE_NUM(page * PAGE_SIZE), PAGE_NUM(page * PAGE_SIZE + KconfigSize(b)),
              MULTIBOOT_MEMORY_AVAILABLE, MEMORY_PMAP_KERNEL)

\* The boot information blocks of SpecBoot.
LowReserved == MmapEntry(0, 1048576, MULTIBOOT_MEMORY_RESERVED)
MainMemory == MmapEntry(1048576, 133169152, MULTIBOOT_MEMORY_AVAILABLE)
BootMaps == {<<LowReserved, MainMemory>>, <<MainMemory>>, <<>>}
\* whether the block holds a memory map tag (it may hold no entry)
BootMapTags == {mt \in BOOLEAN \X BootMaps : mt[1] \/ mt[2] = <<>>}
\* kernel image [__kernel_start, _end)
BootKernels == {<<1048576, 1179648>>, <<2097152, 2230272>>}
\* address of the information block
BootAddrs == {117440512, 1183744, 36864, 117440516}
\* total_size, the first word of the information block
BootLens == {4096, 128}
ModuleTag(s, e) == Tag(MULTIBOOT_TAG_TYPE_MODULE, s, e)
BootModules ==
    { <<>>,
      <<ModuleTag(3145728, 3149824)>>,
      <<ModuleTag(3145728, 3149824), ModuleTag(3149824, 3155000)>>,
      <<ModuleTag(1187840, 1190000)>>,
      <<ModuleTag(3145728, 3149824),
        Tag(MULTIBOOT_TAG_TYPE_CMDLINE, 6438241, 0)>> }
BasicTag == Tag(MULTIBOOT_TAG_TYPE_BASIC_MEMINFO, 640, 130048)
BootMagics == {MULTIBOOT2_BOOTLOADER_MAGIC, 0}

BootInfos ==
    {[magic |-> mg, addr |-> a, len |-> l,
      tags |-> (IF basic THEN <<BasicTag>> ELSE <<>>)
               \o (IF mt[1] THEN <<MmapTag>> ELSE <<>>) \o mods,
      mmap |-> mt[2], kstart |-> k[1], kend |-> k[2]] :
        mg \in BootMagics, a \in BootAddrs, l \in BootLens, basic \in BOOLEAN,
        mt \in BootMapTags, mods \in BootModules, k \in BootKernels}

InitBoot ==
    /\ boot \in BootInfos
    /\ pc = "mb_init"
    /\ entry = <<>>
    /\ count = 0
    /\ seeded = <<>>
    /\ prev = <<>>
    /\ claim = NoClaim
    /\ ret = 0
    /\ path = "none"
    /\ hit = 0
    /\ ncalls = 0
    /\ allValid = TRUE
    /\ allStrict = TRUE
    /\ before = [claim |-> NoClaim, path |-> "none", valid |-> FALSE]
    /\ ub = FALSE
    /\ shift = NoShift
    /\ modi = 0
    /\ kcfg = 0
    /\ result = -1
    /\ inits = 0
    /\ order = <<>>
    /\ pool_offset = 0
    /\ blocks = <<>>
    /\ frees = 0
    /\ pindex = 0
    /\ mod = 0

\* One step of the map builder and the value it yielded.
Step(name, r) == [step |-> name, ret |-> r]

\* mb_init up to the call of kconfig_alloc: an unaligned information block
\* or a wrong magic number ends the boot with 1.
MbInit ==
    /\ pc = "mb_init"
    /\ IF boot.addr % 8 # 0 \/ boot.magic # MULTIBOOT2_BOOTLOADER_MAGIC
       THEN pc' = "returned" /\ result' = 1
       ELSE pc' = "kconfig_alloc" /\ UNCHANGED result
    /\ UNCHANGED <<entry, count, shift, poolVars, initVars, ub, seeded, prev, claim, ret, path, hit, ncalls,
                   allValid, allStrict, before, boot, modi, kcfg, inits, order>>

\* kconfig_alloc up to the call of mb_pmap_init: the block is placed and the
\* table zeroed, with the sentinel behind it.
KconfigAlloc ==
    /\ pc = "kconfig_alloc"
    /\ count' = PmapCapacity(boot)
    /\ kcfg' = mb_alloc_pages(boot, PAGE_NUM(KconfigSize(boot)) + 1)
    /\ \E g \in Garbage : entry' = BlankTable(count', g)
    /\ pc' = "mb_pmap_init"
    /\ UNCHANGED <<shift, poolVars, initVars, ub, seeded, prev, claim, ret, path, hit, ncalls, allValid,
                   allStrict, before, boot, modi, result, inits, order>>

\* mb_pmap_init, seeding: from the memory map tag, else from the basic
\* memory information, else mb_pmap_init returns 0 and the boot fails.
Seed ==
    /\ pc = "mb_pmap_init"
    /\ IF mb_tag_find(boot, MULTIBOOT_TAG_TYPE_MMAP) # 0
       THEN /\ entry' = SeedMmap(entry, boot.mmap)
            /\ pc' = "kernel" /\ order' = Append(order, Step("seed", 1))
            /\ UNCHANGED result
       ELSE IF mb_tag_find(boot, MULTIBOOT_TAG_TYPE_BASIC_MEMINFO) # 0
       THEN /\ entry' = SeedBasic(entry,
                          boot.tags[mb_tag_find(boot, MULTIBOOT_TAG_TYPE_BASIC_MEMINFO)])
            /\ pc' = "kernel" /\ order' = Append(order, Step("seed", 1))
            /\ UNCHANGED result
       ELSE /\ pc' = "returned" /\ result' = 1
            /\ UNCHANGED <<entry, order>>
    /\ seeded' = entry'
    /\ UNCHANGED <<count, shift, poolVars, initVars, ub, prev, claim, ret, path, hit, ncalls, allValid,
                   allStrict, before, boot, modi, kcfg, inits>>

\* ClaimStep without the test of the value mb_pmap_add returned.
ClaimStepUnchecked(e, name, next) ==
    /\ Insert(e)
    /\ order' = Append(order, Step(name, ret'))
    /\ pc' = next
    /\ UNCHANGED result

\* One "if (!mb_pmap_add(...)) return 0" of the map builder: a 0 makes
\* mb_pmap_init return 0, kconfig_alloc return NULL and mb_init return 1.
ClaimStep(e, name, next) ==
    /\ Insert(e)
    /\ order' = Append(order, Step(name, ret'))
    /\ IF ret' = 0
       THEN pc' = "returned" /\ result' = 1
       ELSE pc' = next /\ UNCHANGED result

\* mb_pmap_init: the kernel image (lines 618-625).
ClaimKernel ==
    /\ pc = "kernel"
    /\ ClaimStep(KernelClaim(boot), "kernel", "loader")
    /\ UNCHANGED <<count, shift, poolVars, initVars, seeded, boot, modi, kcfg, inits>>

\* mb_pmap_init: the boot information block (lines 627-636).
ClaimLoader ==
    /\ pc = "loader"
    /\ ClaimStep(LoaderClaim(boot), "loader", "modules")
    /\ UNCHANGED <<count, shift, poolVars, initVars, seeded, boot, modi, kcfg, inits>>

\* mb_pmap_init: one turn of the module loop (lines 639-653).
ClaimModule ==
    /\ pc = "modules"
    /\ modi < Len(ModuleWalk(boot))
    /\ ClaimStep(ModuleClaim(ModuleWalk(boot)[modi + 1]), "module", "modules")
    /\ modi' = modi + 1
    /\ UNCHANGED <<count, shift, poolVars, initVars, seeded, boot, kcfg, inits>>

\* mb_pmap_init returns pmap.count once the module loop has ended;
\* kconfig_alloc then claims its own block (lines 701-711).
ClaimSelf ==
    /\ pc = "modules"
    /\ modi = Len(ModuleWalk(boot))
    /\ ClaimStep(SelfClaim(boot, kcfg), "self", "init_memory")
    /\ UNCHANGED <<count, shift, poolVars, initVars, seeded, boot, modi, kcfg, inits>>

\* mb_init: kconfig is not NULL, so init_memory(kconfig) is called and
\* mb_init returns 0.
InitMemory ==
    /\ pc = "init_memory"
    /\ inits' = inits + 1
    /\ order' = Append(order, Step("init_memory", 1))
    /\ result' = 0
    /\ pc' = "returned"
    /\ UNCHANGED <<entry, count, shift, poolVars, initVars, ub, seeded, prev, claim, ret, path, hit, ncalls,
                   allValid, allStrict, before, boot, modi, kcfg>>

NextBoot ==
    \/ MbInit
    \/ KconfigAlloc
    \/ Seed
    \/ ClaimKernel
    \/ ClaimLoader
    \/ ClaimModule
    \/ ClaimSelf
    \/ InitMemory

SpecBoot == InitBoot /\ [][NextBoot]_vars

(***************************************************************************)
(* SpecShift: the three shift routines are called on a table               *)
(***************************************************************************)
\* The tables of SpecShift: capacity MaxSlots, the first live slots in use
\* (the builders fill the table from slot 0 without holes), the rest as
\* memset left them; mixed tells whether kinds and usages alternate.
ShiftTable(live, mixed, g) ==
    [i \in 0..MaxSlots |->
        IF i = MaxSlots THEN PmapEntry(g, g, g, MEMORY_PMAP_END)
        ELSE IF i >= live THEN ZeroEntry
        ELSE PmapEntry(2 * i, 2 * i + 1,
                       IF mixed /\ i % 2 = 1 THEN MULTIBOOT_MEMORY_RESERVED
                       ELSE MULTIBOOT_MEMORY_AVAILABLE,
                       IF mixed /\ i % 2 = 0 THEN MEMORY_PMAP_KERNEL
                       ELSE MEMORY_PMAP_UNUSED)]

ShiftInputs ==
    {[tbl |-> ShiftTable(live, mixed, g), cnt |-> MaxSlots, from |-> from,
      by |-> by, mb |-> NotRun, malloc |-> NotRun, init |-> NotRun] :
        live \in 0..MaxSlots, mixed \in BOOLEAN, g \in Garbage,
        from \in 0..(MaxSlots - 1), by \in {1, 2}}

InitShift ==
    /\ shift \in ShiftInputs
    /\ pc = "shift"
    /\ boot = MapOnly(<<>>)
    /\ entry = <<>>
    /\ count = 0
    /\ seeded = <<>>
    /\ prev = <<>>
    /\ claim = NoClaim
    /\ ret = 0
    /\ path = "none"
    /\ hit = 0
    /\ ncalls = 0
    /\ allValid = TRUE
    /\ allStrict = TRUE
    /\ before = [claim |-> NoClaim, path |-> "none", valid |-> FALSE]
    /\ ub = FALSE
    /\ modi = 0
    /\ kcfg = 0
    /\ result = -1
    /\ inits = 0
    /\ order = <<>>
    /\ pool_offset = 0
    /\ blocks = <<>>
    /\ frees = 0
    /\ pindex = 0
    /\ mod = 0

\* What a call returned and left in the table.
Ran(out) == [tbl |-> out.tbl, ok |-> out.ok, oob |-> out.oob, ran |-> TRUE]

\* mb_pmap_shift(&entries[from], by) of multiboot.c
ShiftMb ==
    /\ pc = "shift" /\ ~shift.mb.ran
    /\ shift' = [shift EXCEPT !.mb =
                    Ran(mb_pmap_shift(shift.tbl, shift.cnt, shift.from, shift.by))]
    /\ UNCHANGED <<builderVars, poolVars, initVars>>

\* pmap_shift(&entries[from], by) of malloc.c
ShiftMalloc ==
    /\ pc = "shift" /\ ~shift.malloc.ran
    /\ shift' = [shift EXCEPT !.malloc =
                    Ran(malloc_pmap_shift(shift.tbl, shift.cnt, shift.from, shift.by))]
    /\ UNCHANGED <<builderVars, poolVars, initVars>>

\* pmap_shift(&entries[from], by) of init.c
ShiftInitC ==
    /\ pc = "shift" /\ ~shift.init.ran
    /\ shift' = [shift EXCEPT !.init =
                    Ran(init_pmap_shift(shift.tbl, shift.cnt, shift.from, shift.by))]
    /\ UNCHANGED <<builderVars, poolVars, initVars>>

NextShift ==
    \/ ShiftMb
    \/ ShiftMalloc
    \/ ShiftInitC

SpecShift == InitShift /\ [][NextShift]_vars

(***************************************************************************)
(* SpecInit: pmap_init of init.c (malloc.c holds the same pmap_add and     *)
(* __pmap_init)                                                            *)
(***************************************************************************)
\* "size_t size = sizeof(struct pmap_table)"
SIZEOF_PMAP_TABLE == 4

\* The accessors of the boot information that init.c calls.  Their code is
\* not part of the sources; they are read as their names and their uses
\* say: the raw regions and the modules by index, the block's first byte and
\* the byte after its last, and 0 for a module that does not exist (the
\* value find_free_pages skips).
Modules(b) ==
    SelectSeq(b.tags, LAMBDA tag : tag.type = MULTIBOOT_TAG_TYPE_MODULE)
mb_mmap_count(b) == Len(b.mmap)
mb_mmap_start(b, i) == b.mmap[i + 1].addr
mb_mmap_end(b, i) == b.mmap[i + 1].addr + b.mmap[i + 1].len
mb_mmap_type(b, i) == b.mmap[i + 1].type
mb_mod_count(b) == Len(Modules(b))
mb_mod_start(b, m) == IF m < Len(Modules(b)) THEN Modules(b)[m + 1].w8 ELSE 0
mb_mod_end(b, m) == IF m < Len(Modules(b)) THEN Modules(b)[m + 1].w12 ELSE 0
mb_mbi_start(b) == b.addr
mb_mbi_end(b) == b.addr + b.len

\* pmap_init: "count = 2; count += mb_mmap_count(); count += mb_mod_count()"
InitCapacity(b) == 2 + mb_mmap_count(b) + mb_mod_count(b)

\* pmap_init: "size += (count * sizeof(struct pmap_entry))"
PmapSize(b) == SIZEOF_PMAP_TABLE + InitCapacity(b) * SIZEOF_PMAP_ENTRY

\* The module loop of find_free_pages: the first page and the last page
\* tested, as the pair <<pstart, pend>>.
RECURSIVE FreePastModules(_, _, _, _)
FreePastModules(b, module, span, npages) ==
    IF module >= mb_mod_count(b) THEN span
    ELSE IF mb_mod_start(b, module) = 0 \/ mb_mod_end(b, module) = 0
    THEN FreePastModules(b, module + 1, span, npages)
    ELSE IF /\ PAGE_NUM(mb_mod_start(b, module)) <= span[2]
            /\ PAGE_NUM(mb_mod_start(b, module)) >= span[1]
    THEN FreePastModules(b, module + 1,
             <<PAGE_NUM(mb_mod_end(b, module) + 1),
               PAGE_NUM(mb_mod_end(b, module) + 1) + (npages - 1)>>, npages)
    ELSE FreePastModules(b, module + 1, span, npages)

\* find_free_pages(count): the first page of the block.
find_free_pages(b, npages) ==
    LET p0 == PAGE_NUM(b.kend) + 1
        s0 == IF /\ PAGE_NUM(mb_mbi_start(b)) < p0 + npages
                 /\ PAGE_NUM(mb_mbi_start(b)) > p0
              THEN <<PAGE_NUM(mb_mbi_end(b)) + 1,
                     PAGE_NUM(mb_mbi_end(b)) + 1 + npages>>
              ELSE <<p0, p0 + npages>>
    IN  FreePastModules(b, 0, s0, npages)[1]

\* What pmap_add of init.c returns and leaves in the table.
Added(t, r, p, o) == [tbl |-> t, ret |-> r, path |-> p, oob |-> o]

\* pmap_add, "Consumes the start of this entry" (lines 298-322).
AddHead(t, cap, e, index) ==
    IF t[index].flags = e.flags /\ t[index].end <= e.end
    THEN Added(IF t[index].start < e.end
               THEN [t EXCEPT ![index].end = e.end,
                              ![index + 1].start = Inc(e.end)]
               ELSE [t EXCEPT ![index].end = e.end],
               0, "extend", FALSE)
    ELSE LET sh == init_pmap_shift(t, cap, index, 1)
         IN  IF ~sh.ok THEN Added(t, -1, "noshift", sh.oob)
             ELSE Added([sh.tbl EXCEPT
                            ![index] = PmapEntry(e.start, e.end, e.type, e.flags),
                            ![index + 1].start = Inc(e.end)],
                        1, "head", FALSE)

\* pmap_add, "Consume the tail of the current entry" (lines 324-359).
AddTail(t, cap, e, index) ==
    IF t[index].flags = e.flags
    THEN Added(IF /\ t[index + 1].type = MULTIBOOT_MEMORY_AVAILABLE
                  /\ t[index + 1].start <= e.end
               THEN [t EXCEPT ![index].end = e.end,
                              ![index + 1].start = Inc(e.end)]
               ELSE [t EXCEPT ![index].end = e.end],
               0, "join", FALSE)
    ELSE IF t[index + 1].flags = e.flags /\ t[index + 1].start >= e.end
    THEN Added([t EXCEPT ![index + 1].start = e.start,
                         ![index].end = Dec(e.start)],
               0, "merge", FALSE)
    ELSE LET sh == init_pmap_shift(t, cap, index, 1)
         IN  IF ~sh.ok THEN Added(t, -1, "noshift", sh.oob)
             ELSE Added([sh.tbl EXCEPT
                            ![index].end = Dec(e.start),
                            ![index + 1] =
                                PmapEntry(e.start, e.end, e.type, e.flags)],
                        1, "tail", FALSE)

\* pmap_add, "Split the current entry in 2" (lines 361-389).
AddSplit(t, cap, e, index) ==
    IF e.flags = t[index].flags THEN Added(t, -1, "overlap", FALSE)
    ELSE LET sh == init_pmap_shift(t, cap, index, 2)
             s  == sh.tbl
         IN  IF ~sh.ok THEN Added(t, -1, "noshift", sh.oob)
             ELSE Added([s EXCEPT
                            ![index + 2] = PmapEntry(Inc(e.end), s[index].end,
                                               s[index].type, s[index].flags),
                            ![index + 1] =
                                PmapEntry(e.start, e.end, e.type, e.flags),
                            ![index].end = Dec(e.start)],
                        2, "split", FALSE)

\* pmap_add(entries, entry, index) of init.c (lines 273-393); cap is the
\* slot of the sentinel.
init_pmap_add(t, cap, e, index) ==
    IF t[index].type # MULTIBOOT_MEMORY_AVAILABLE THEN Added(t, 0, "insane", FALSE)
    ELSE IF e.start > t[index].end THEN Added(t, 0, "insane", FALSE)
    ELSE IF e.start = t[index].start /\ e.end >= t[index].start
    THEN AddHead(t, cap, e, index)
    ELSE IF e.start <= t[index].end /\ e.end >= t[index].end
    THEN AddTail(t, cap, e, index)
    ELSE IF e.start < t[index].end /\ e.end > t[index].start
    THEN AddSplit(t, cap, e, index)
    ELSE Added(t, -1, "bottom", FALSE)

\* The claims __pmap_init and pmap_init build.
InitModuleClaim(b, m) ==
    PmapEntry(PAGE_NUM(mb_mod_start(b, m)), PAGE_NUM(mb_mod_end(b, m)),
              MULTIBOOT_MEMORY_AVAILABLE, MEMORY_PMAP_MODULE)
InitSelfClaim(b, page) ==
    PmapEntry(PAGE_NUM(page * PAGE_SIZE), PAGE_NUM(page * PAGE_SIZE + PmapSize(b)),
              MULTIBOOT_MEMORY_AVAILABLE, MEMORY_PMAP_KERNEL)

\* The tests that guard the claims in the loop of __pmap_init.
KernelInEntry(b, r) ==
    PAGE_NUM(b.kstart) <= r.end /\ PAGE_NUM(b.kstart) >= r.start
LoaderInEntry(b, r) ==
    PAGE_NUM(mb_mbi_start(b)) <= r.end /\ PAGE_NUM(mb_mbi_end(b)) >= r.start
ModuleInEntry(b, m, r) ==
    PAGE_NUM(mb_mod_start(b, m)) <= r.end /\ PAGE_NUM(mb_mod_end(b, m)) >= r.start

\* "if (!entries[index].type) { ... }": raw region index written to slot index.
SeedSlot(t, b, index) ==
    IF t[index].type = 0
    THEN [t EXCEPT ![index] =
             PmapEntry(PAGE_NUM(mb_mmap_start(b, index)),
                       Dec(PAGE_NUM(mb_mmap_end(b, index))),
                       mb_mmap_type(b, index), MEMORY_PMAP_UNUSED)]
    ELSE t

\* "index = 0; while (entries[index].type) index++": the first slot whose
\* type is 0, or -1 when the scan runs past the sentinel slot.
FirstEmpty(t, cap) ==
    LET empty == {i \in 0..cap : t[i].type = 0}
    IN  IF empty = {} THEN -1
        ELSE CHOOSE i \in empty : \A k \in empty : i <= k

\* The boot information of SpecInit: memory maps with the kernel in the
\* first, the second and the third raw region.
LowAvailable == MmapEntry(0, 655360, MULTIBOOT_MEMORY_AVAILABLE)
LowHole == MmapEntry(655360, 393216, MULTIBOOT_MEMORY_RESERVED)
HighReserved == MmapEntry(134217728, 1048576, MULTIBOOT_MEMORY_RESERVED)
InitMaps ==
    { <<LowReserved, MainMemory>>,
      <<MainMemory, HighReserved>>,
      <<LowAvailable, LowHole, MainMemory>>,
      <<MainMemory>>,
      <<>> }
InitAddrs == {36864, 1183744, 117440512}
InitModules ==
    { <<>>,
      <<ModuleTag(3145728, 3149824)>>,
      <<ModuleTag(3145728, 3149824), ModuleTag(3149824, 3155000)>> }
InitBoots ==
    {[magic |-> MULTIBOOT2_BOOTLOADER_MAGIC, addr |-> a, len |-> l,
      tags |-> <<MmapTag>> \o mods, mmap |-> mmap,
      kstart |-> k[1], kend |-> k[2]] :
        a \in InitAddrs, l \in BootLens, mmap \in InitMaps,
        mods \in InitModules, k \in BootKernels}

\* fmios_init has called mb_init and is about to call pmap_init.
InitInit ==
    /\ boot \in InitBoots
    /\ pc = "pmap_init"
    /\ pindex = 0
    /\ mod = 0
    /\ entry = <<>>
    /\ count = 0
    /\ seeded = <<>>
    /\ prev = <<>>
    /\ claim = NoClaim
    /\ ret = 0
    /\ path = "none"
    /\ hit = 0
    /\ ncalls = 0
    /\ allValid = TRUE
    /\ allStrict = TRUE
    /\ before = [claim |-> NoClaim, path |-> "none", valid |-> FALSE]
    /\ ub = FALSE
    /\ shift = NoShift
    /\ modi = 0
    /\ kcfg = 0
    /\ result = -1
    /\ inits = 0
    /\ order = <<>>
    /\ pool_offset = 0
    /\ blocks = <<>>
    /\ frees = 0

\* what no action of SpecInit changes
initIdle == <<seeded, ncalls, allValid, allStrict, before, boot, modi, inits,
              order, shift, poolVars>>

\* pmap_init up to the call of __pmap_init: the block is placed, the table
\* zeroed and the sentinel set behind it (lines 502-518).
PmapInit ==
    /\ pc = "pmap_init"
    /\ count' = InitCapacity(boot)
    /\ kcfg' = find_free_pages(boot, PAGE_NUM(PmapSize(boot)) + 1)
    /\ \E g \in Garbage : entry' = BlankTable(count', g)
    /\ pindex' = 0
    /\ pc' = "region"
    /\ UNCHANGED <<initIdle, mod, ub, prev, claim, ret, path, hit, result>>

\* __pmap_init: the test of the region loop, the seeding of slot index and
\* the "continue" for a region that is not Available (lines 413-429); when
\* the loop has ended, control passes to the count of the entries.
Region ==
    /\ pc = "region"
    /\ IF pindex < mb_mmap_count(boot)
       THEN /\ entry' = SeedSlot(entry, boot, pindex)
            /\ IF entry'[pindex].type # MULTIBOOT_MEMORY_AVAILABLE
               THEN pindex' = pindex + 1 /\ pc' = "region"
               ELSE pc' = "i_kernel" /\ UNCHANGED pindex
       ELSE pc' = "tally" /\ UNCHANGED <<entry, pindex>>
    /\ UNCHANGED <<initIdle, mod, count, kcfg, ub, prev, claim, ret, path, hit,
                   result>>

\* One call pmap_add(pmap->entry, &e, index).  A call whose shift scans past
\* the sentinel slot has undefined behaviour: it may return any value.
InitInsert(e, index) ==
    \E out \in {init_pmap_add(entry, InitCapacity(boot), e, index)} :
        /\ prev' = entry
        /\ claim' = e
        /\ entry' = out.tbl
        /\ path' = out.path
        /\ hit' = index
        /\ ub' = (ub \/ out.oob)
        /\ IF out.oob THEN ret' \in {-1, 0} ELSE ret' = out.ret

\* "ret = pmap_add(...); if (ret < 0) return 0;" of __pmap_init: a negative
\* value makes __pmap_init return 0, pmap_init NULL and fmios_init 1.
InitClaimStep(inside, e, next) ==
    IF inside
    THEN /\ InitInsert(e, pindex)
         /\ IF ret' < 0
            THEN pc' = "returned" /\ result' = 1
            ELSE pc' = next /\ UNCHANGED result
    ELSE /\ pc' = next
         /\ UNCHANGED <<entry, prev, claim, ret, path, hit, ub, result>>

\* __pmap_init: the kernel image (lines 431-443).
InitKernel ==
    /\ pc = "i_kernel"
    /\ InitClaimStep(KernelInEntry(boot, entry[pindex]), KernelClaim(boot),
                     "i_loader")
    /\ UNCHANGED <<initIdle, pindex, mod, count, kcfg>>

\* __pmap_init: the boot information block (lines 445-457) and the start
\* of the module loop, "mod_max = mb_mod_count(); mod = 0".
InitLoader ==
    /\ pc = "i_loader"
    /\ InitClaimStep(LoaderInEntry(boot, entry[pindex]), LoaderClaim(boot),
                     "i_modules")
    /\ mod' = 0
    /\ UNCHANGED <<initIdle, pindex, count, kcfg>>

\* __pmap_init: one turn of "for (mod = 0; index < mod_max; mod++)" (lines
\* 459-476).  mod grows without bound; every value from mod_max on selects
\* no module, so of these values the model keeps only mod_max and
\* mod_max + 1, in turn.
ModuleTurn ==
    /\ pc = "i_modules"
    /\ pindex < mb_mod_count(boot)
    /\ InitClaimStep(ModuleInEntry(boot, mod, entry[pindex]),
                     InitModuleClaim(boot, mod), "i_modules")
    /\ mod' = IF mod <= mb_mod_count(boot) THEN mod + 1 ELSE mb_mod_count(boot)
    /\ UNCHANGED <<initIdle, pindex, count, kcfg>>

\* __pmap_init: the module loop is left and the region loop goes on with
\* "index++".
ModulesDone ==
    /\ pc = "i_modules"
    /\ ~(pindex < mb_mod_count(boot))
    /\ pindex' = pindex + 1
    /\ pc' = "region"
    /\ UNCHANGED <<initIdle, mod, entry, count, kcfg, ub, prev, claim, ret, path,
                   hit, result>>

\* __pmap_init: the entries are counted into pmap->count, which is also the
\* value returned (lines 478-484); 0 makes pmap_init return NULL.  A scan
\* that runs past the sentinel slot has undefined behaviour.
Tally ==
    /\ pc = "tally"
    /\ \E n \in {FirstEmpty(entry, InitCapacity(boot))} :
          IF n = -1
          THEN /\ ub' = TRUE
               /\ pc' = "returned"
               /\ result' \in {0, 1}
               /\ UNCHANGED count
          ELSE /\ count' = n
               /\ IF n = 0
                  THEN pc' = "returned" /\ result' = 1
                  ELSE pc' = "i_self" /\ UNCHANGED result
               /\ UNCHANGED ub
    /\ UNCHANGED <<initIdle, pindex, mod, entry, kcfg, prev, claim, ret, path, hit>>

\* pmap_init: the table's own block is claimed at index pmap->count and
\* "ret >= 0" returns the table (lines 523-533).
InitSelf ==
    /\ pc = "i_self"
    /\ InitInsert(InitSelfClaim(boot, kcfg), count)
    /\ IF ret' >= 0
       THEN pc' = "init_memory" /\ UNCHANGED result
       ELSE pc' = "returned" /\ result' = 1
    /\ UNCHANGED <<initIdle, pindex, mod, count, kcfg>>

NextInit ==
    \/ PmapInit
    \/ Region
    \/ InitKernel
    \/ InitLoader
    \/ ModuleTurn
    \/ ModulesDone
    \/ Tally
    \/ InitSelf
    \/ InitMemory

SpecInit == InitInit /\ [][NextInit]_vars

\* The same run under the scheduling of the code: one thread of control
\* that executes its next statement as long as there is one.
SpecInitLive == SpecInit /\ WF_vars(NextInit)

(***************************************************************************)
(* SpecKmalloc: the bump allocator of lib/c/kmalloc.c                      *)
(***************************************************************************)
\* "static char memory_pool[64 * 1024]"
POOL_SIZE == 65536

\* Calls of one run.
MaxKmallocCalls == 4
MaxFrees == 2

\* "size = (size + 7) & ~7" in size_t arithmetic.
AlignUp(size) == ((size + 7) % WORD) - (((size + 7) % WORD) % 8)

\* kmalloc(size) with pool_offset = off: null tells that NULL is returned,
\* ptr is the offset of the returned block in memory_pool, got the rounded
\* size and off the new pool_offset.
kmalloc(off, size) ==
    IF size = 0
    THEN [null |-> TRUE, ptr |-> 0, got |-> 0, off |-> off]
    ELSE IF (off + AlignUp(size)) % WORD > POOL_SIZE
    THEN [null |-> TRUE, ptr |-> 0, got |-> AlignUp(size), off |-> off]
    ELSE [null |-> FALSE, ptr |-> off, got |-> AlignUp(size),
          off |-> (off + AlignUp(size)) % WORD]

\* The sizes asked for: any size_t, the small, the pool sized and the ones
\* next to SIZE_MAX.
KmallocSizes ==
    {0, 1, 8, 13, 4096, 32768, 65528, 65536, 65537,
     WORD_MAX - 65535, WORD_MAX - 8, WORD_MAX - 7, WORD_MAX - 6, WORD_MAX}

InitKmalloc ==
    /\ pool_offset = 0
    /\ blocks = <<>>
    /\ frees = 0
    /\ pc = "kmalloc"
    /\ boot = MapOnly(<<>>)
    /\ shift = NoShift
    /\ entry = <<>>
    /\ count = 0
    /\ seeded = <<>>
    /\ prev = <<>>
    /\ claim = NoClaim
    /\ ret = 0
    /\ path = "none"
    /\ hit = 0
    /\ ncalls = 0
    /\ allValid = TRUE
    /\ allStrict = TRUE
    /\ before = [claim |-> NoClaim, path |-> "none", valid |-> FALSE]
    /\ ub = FALSE
    /\ modi = 0
    /\ kcfg = 0
    /\ result = -1
    /\ inits = 0
    /\ order = <<>>
    /\ pindex = 0
    /\ mod = 0

\* One call kmalloc(size).
Kmalloc ==
    /\ pc = "kmalloc"
    /\ Len(blocks) < MaxKmallocCalls
    /\ \E size \in KmallocSizes :
          \E out \in {kmalloc(pool_offset, size)} :
              /\ pool_offset' = out.off
              /\ blocks' = Append(blocks,
                               [size |-> size, null |-> out.null, ptr |-> out.ptr,
                                got |-> out.got, was |-> pool_offset,
                                off |-> out.off])
    /\ UNCHANGED <<builderVars, shift, initVars, frees>>

\* One call kfree(ptr) with a pointer kmalloc returned, or NULL.
Kfree ==
    /\ pc = "kmalloc"
    /\ frees < MaxFrees
    /\ \E ptr \in {0} \cup {blocks[i].ptr : i \in 1..Len(blocks)} :
          frees' = frees + 1
    /\ UNCHANGED <<builderVars, shift, initVars, pool_offset, blocks>>

NextKmalloc ==
    \/ Kmalloc
    \/ Kfree

SpecKmalloc == InitKmalloc /\ [][NextKmalloc]_vars

(***************************************************************************)
(* Properties of the table                                                 *)
(***************************************************************************)
\* Live entries are in ascending address order and pairwise disjoint.
SortedDisjoint(t, cnt) ==
    \A i, j \in Live(t, cnt) : i < j => t[i].end < t[j].start

\* C1: after any sequence of valid mb_pmap_add calls the live entries are
\* in ascending address order and pairwise non-overlapping.
C1_SortedAfterValidInserts ==
    allValid => SortedDisjoint(entry, count)

\* Every live entry has start <= end.
NoneInverted(t, cnt) == \A i \in Live(t, cnt) : t[i].start <= t[i].end

\* The table is as the map builder means it to be.
WellFormed(t, cnt) == SortedDisjoint(t, cnt) /\ NoneInverted(t, cnt)

\* The two page ranges share a page.
Intersects(a, b) == a.start <= b.end /\ b.start <= a.end

\* The live entries the claim shares a page with that another consumer holds.
ForeignHits(t, cnt, e) ==
    {i \in Live(t, cnt) :
        /\ t[i].type = MULTIBOOT_MEMORY_AVAILABLE
        /\ t[i].flags \in Usages
        /\ t[i].flags # e.flags
        /\ Intersects(t[i], e)}

\* The live entries of another kind than Available the claim shares a page with.
ReservedHits(t, cnt, e) ==
    {i \in Live(t, cnt) :
        t[i].type # MULTIBOOT_MEMORY_AVAILABLE /\ Intersects(t[i], e)}

\* The last call reported an error and changed nothing.
Rejected == ret = 0 /\ entry = prev

\* C2: a claim that shares a page with an entry another consumer holds is
\* rejected: mb_pmap_add returns 0 and leaves the table as it was.
C2_ForeignOverlapRejected ==
    (ncalls > 0 /\ ~ub /\ WellFormed(prev, count)
        /\ ForeignHits(prev, count, claim) # {})
    => Rejected

\* C3: a claim that shares a page with an entry of a kind other than
\* Available is rejected: mb_pmap_add returns 0 and leaves the table as it was.
C3_ReservedOverlapRejected ==
    (ncalls > 0 /\ ~ub /\ WellFormed(prev, count)
        /\ ReservedHits(prev, count, claim) # {})
    => Rejected

\* The table t with entry i split in three around the claim e and every
\* later live entry moved up by two slots.
SplitInThree(t, cnt, e, i, u) ==
    /\ \A j \in 0..(i - 1) : u[j] = t[j]
    /\ u[i] = [t[i] EXCEPT !.end = e.start - 1]
    /\ u[i + 1] = e
    /\ u[i + 2] = PmapEntry(e.end + 1, t[i].end, MULTIBOOT_MEMORY_AVAILABLE,
                            MEMORY_PMAP_UNUSED)
    /\ \A j \in Live(t, cnt) : j > i => (j + 2 < cnt /\ u[j + 2] = t[j])
    /\ Cardinality(Live(u, cnt)) = Cardinality(Live(t, cnt)) + 2

\* C4: a claim strictly inside one Available/Unused entry, when the insert
\* does not fail, replaces that entry by the leading remainder, the claim
\* and the trailing remainder, and moves every later entry up by two slots.
C4_StrictSplitInThree ==
    (ncalls > 0 /\ ~ub /\ WellFormed(prev, count)
        /\ StrictClaim(prev, count, claim) /\ path # "noshift")
    => \A i \in StrictHosts(prev, count, claim) :
          SplitInThree(prev, count, claim, i, entry)

\* The number of live entries of t that cover page p.
Cover(t, cnt, p) ==
    Cardinality({i \in Live(t, cnt) : t[i].start <= p /\ p <= t[i].end})

\* Every live entry of t above slot i is found, with its content, in u.
NoneLost(t, cnt, i, u) ==
    \A j \in Live(t, cnt) : j > i => \E k \in 0..(cnt - 1) : u[k] = t[j]

\* C6: the capacity is never exceeded: the sentinel slot is never written,
\* no call reaches past it, and no live entry behind the claimed one
\* disappears from the table.
C6_CapacityNeverExceeded ==
    /\ ~ub
    /\ entry[count] = seeded[count]
    /\ (allValid /\ ncalls > 0 /\ WellFormed(prev, count)
           /\ path \in {"head", "split"})
       => NoneLost(prev, count, hit + 1, entry)

\* C7: on a table of planner capacity 2*(R + M + 2), the first R + M + 2
\* claims that each split an entry in three all complete: none fails for
\* want of room and none loses an entry; a splitting claim that does not
\* complete is rejected and leaves the table and the sentinel as they were.
C7_CapacityBoundary ==
    (allStrict /\ ncalls > 0)
    => /\ ncalls <= mb_pmap_count(boot)
          => (path = "split" /\ NoneLost(prev, count, hit, entry))
       /\ path # "split"
          => (Rejected /\ entry[count] = seeded[count])

\* C8: valid claims only reclassify usage: every page is covered by as many
\* live entries after each insert as right after seeding.
C8_CoverageConserved ==
    allValid => \A p \in 0..MaxPage : Cover(entry, count, p) = Cover(seeded, count, p)

\* The paths on which mb_pmap_add records the claim.
Recorded == {"head", "join", "split"}

\* C9: inserting the same (range, usage) again right after it was inserted
\* leaves every entry of the table unchanged.
C9_ReclaimIdempotent ==
    (ncalls >= 2 /\ ~ub /\ before.valid /\ before.claim = claim
        /\ before.path \in Recorded)
    => entry = prev

(***************************************************************************)
(* Properties of the boot sequence                                         *)
(***************************************************************************)
\* The end-to-end scenario: [0,0x100000) Reserved, [0x100000,0x8000000)
\* Available, kernel [0x100000,0x120000), boot information
\* [0x7000000,0x7001000), no modules.
EndToEndBoot ==
    [magic |-> MULTIBOOT2_BOOTLOADER_MAGIC, addr |-> 117440512, len |-> 4096,
     tags |-> <<MmapTag>>, mmap |-> <<LowReserved, MainMemory>>,
     kstart |-> 1048576, kend |-> 1179648]

\* The table the scenario is expected to end in, in pages.
EndToEndTable ==
    <<PmapEntry(0, 255, MULTIBOOT_MEMORY_RESERVED, MEMORY_PMAP_UNUSED),
      PmapEntry(256, 287, MULTIBOOT_MEMORY_AVAILABLE, MEMORY_PMAP_KERNEL),
      PmapEntry(288, 28671, MULTIBOOT_MEMORY_AVAILABLE, MEMORY_PMAP_UNUSED),
      PmapEntry(28672, 28672, MULTIBOOT_MEMORY_AVAILABLE, MEMORY_PMAP_LOADER),
      PmapEntry(28673, 32767, MULTIBOOT_MEMORY_AVAILABLE, MEMORY_PMAP_UNUSED)>>

\* The live entries of the table are exactly those of the sequence want.
TableIs(t, cnt, want) ==
    /\ Live(t, cnt) = 0..(Len(want) - 1)
    /\ \A i \in 0..(Len(want) - 1) : t[i] = want[i + 1]

\* C5: in the end-to-end scenario mb_pmap_init (seed, kernel claim, boot
\* information claim) ends with exactly the expected five entries, and the
\* build does not fail.
C5_EndToEndScenario ==
    boot = EndToEndBoot =>
        /\ (pc = "modules" => TableIs(entry, count, EndToEndTable))
        /\ (pc = "returned" => result = 0)

\* The steps that insert a claim.
ClaimSteps == {"kernel", "loader", "module", "self"}

\* The steps follow the one line seed, kernel, loader, module ..., self,
\* init_memory.
Linear(o) ==
    \A i \in 1..Len(o) :
        /\ i = 1 => o[i].step = "seed"
        /\ i = 2 => o[i].step = "kernel"
        /\ i = 3 => o[i].step = "loader"
        /\ i > 3 => o[i].step \in {"module", "self", "init_memory"}
        /\ (i > 3 /\ o[i].step = "module") => o[i - 1].step \in {"loader", "module"}
        /\ (i > 3 /\ o[i].step = "self") => o[i - 1].step \in {"loader", "module"}
        /\ o[i].step = "init_memory" => (i > 1 /\ o[i - 1].step = "self")

SpanHosts(t, cnt, e) ==
    {i \in Live(t, cnt) :
        /\ t[i].type = MULTIBOOT_MEMORY_AVAILABLE
        /\ t[i].flags = MEMORY_PMAP_UNUSED
        /\ t[i].start <= e.start /\ e.start <= t[i].end
        /\ i + 1 \in Live(t, cnt)
        /\ e.end >= t[i + 1].start}

\* C11: a claim that starts inside one Available/Unused entry and ends
\* inside or beyond the next entry is rejected: mb_pmap_add returns 0 and
\* leaves the table as it was.
C11_SpanningClaimRejected ==
    (ncalls > 0 /\ ~ub /\ WellFormed(prev, count)
        /\ SpanHosts(prev, count, claim) # {})
    => Rejected

\* The kinds and usages page p is recorded under (none for a page of a gap).
Class(t, cnt, p) ==
    {<<t[i].type, t[i].flags>> :
        i \in {j \in Live(t, cnt) : t[j].start <= p /\ p <= t[j].end}}

\* C12: a call of mb_pmap_add, accepted or rejected, changes the kind and
\* usage only of pages inside the claim's own range.
C12_OnlyClaimedPagesChange ==
    (ncalls > 0 /\ ~ub /\ WellFormed(prev, count))
    => \A p \in 0..(MaxPage + 1) :
          (p < claim.start \/ p > claim.end)
          => Class(entry, count, p) = Class(prev, count, p)

(***************************************************************************)
(* Properties of capacity planning                                         *)
(***************************************************************************)
\* R: the raw regions the boot information reports: the entries of the
\* memory map tag, else the two regions of the basic memory information.
RawRegionCount(b) ==
    IF \E i \in 1..Len(b.tags) : b.tags[i].type = MULTIBOOT_TAG_TYPE_MMAP
    THEN Len(b.mmap)
    ELSE IF \E i \in 1..Len(b.tags) :
                b.tags[i].type = MULTIBOOT_TAG_TYPE_BASIC_MEMINFO
    THEN 2 ELSE 0

\* M: the modules the boot information reports.
ModuleCount(b) ==
    Cardinality({i \in 1..Len(b.tags) :
                    b.tags[i].type = MULTIBOOT_TAG_TYPE_MODULE})

\* C13: kconfig_alloc sets pmap.count to 2*(R + M + 2) and places the
\* sentinel at entry[2*(R + M + 2)].
C13_PlannedCapacity ==
    pc = "mb_pmap_init"
    => /\ count = 2 * (RawRegionCount(boot) + ModuleCount(boot) + 2)
       /\ DOMAIN entry = 0..count
       /\ entry[count].flags = MEMORY_PMAP_END
       /\ \A i \in 0..(count - 1) : entry[i] = ZeroEntry

\* C14: when the boot information describes no raw memory region, map
\* building fails: init_memory is not called and mb_init returns 1.
C14_NoMemoryMapFails ==
    RawRegionCount(boot) = 0
    => /\ inits = 0
       /\ pc # "init_memory"
       /\ pc = "returned" => result = 1

(***************************************************************************)
(* Properties of the shift routines                                        *)
(***************************************************************************)
\* The unused slots below the sentinel.
Room(t, cnt) == cnt - Cardinality(Live(t, cnt))

\* The live entries the shift has to move.
ToMove(t, cnt, from) == {i \in Live(t, cnt) : i >= from}

\* out holds the table t with every live entry at or after from moved up
\* by `by` slots, the entries below from and the sentinel as they were.
MovedUp(t, cnt, from, by, out) ==
    /\ ~out.oob
    /\ DOMAIN out.tbl = DOMAIN t
    /\ \A i \in ToMove(t, cnt, from) : i + by < cnt /\ out.tbl[i + by] = t[i]
    /\ \A j \in 0..(from - 1) : out.tbl[j] = t[j]
    /\ out.tbl[cnt] = t[cnt]

\* The calls made so far.
ShiftsRun == {out \in {shift.mb, shift.malloc, shift.init} : out.ran}

\* C15: with at least `by` unused slots below the sentinel, each shift
\* routine moves every live entry at index i >= from to index i + by with
\* its content, and leaves the entries below from and the sentinel alone.
C15_ShiftMovesEntries ==
    (pc = "shift" /\ Room(shift.tbl, shift.cnt) >= shift.by)
    => \A out \in ShiftsRun :
          MovedUp(shift.tbl, shift.cnt, shift.from, shift.by, out)

\* The three routines have moved three live entries by two slots.
C15_Witness ==
    /\ pc = "shift"
    /\ shift.by = 2
    /\ Room(shift.tbl, shift.cnt) >= 2
    /\ Cardinality(ToMove(shift.tbl, shift.cnt, shift.from)) = 3
    /\ shift.mb.ran /\ shift.malloc.ran /\ shift.init.ran
    /\ shift.mb.ok /\ shift.malloc.ok /\ shift.init.ok
    /\ shift.mb.tbl # shift.tbl

\* C16: with fewer than `by` unused slots below the sentinel, so that the
\* last live entry would have to move onto or past the sentinel, each shift
\* routine reports failure and leaves the table as it was.
C16_ShiftFailsWhenFull ==
    (pc = "shift" /\ Room(shift.tbl, shift.cnt) < shift.by
        /\ ToMove(shift.tbl, shift.cnt, shift.from) # {})
    => \A out \in ShiftsRun : ~out.ok /\ out.tbl = shift.tbl

(***************************************************************************)
(* Properties of the head and tail cases                                   *)
(***************************************************************************)
\* The Available/Unused entries the claim starts with and ends inside.
HeadHosts(t, cnt, e) ==
    {i \in Live(t, cnt) :
        /\ t[i].type = MULTIBOOT_MEMORY_AVAILABLE
        /\ t[i].flags = MEMORY_PMAP_UNUSED
        /\ t[i].start = e.start /\ e.end < t[i].end}

\* The table t shifted right by one slot at i, slot i holding the claim and
\* slot i + 1 the rest of the original entry.
HeadInserted(t, cnt, e, i, u) ==
    /\ \A j \in 0..(i - 1) : u[j] = t[j]
    /\ u[i] = e
    /\ u[i + 1] = [t[i] EXCEPT !.start = e.end + 1]
    /\ \A j \in Live(t, cnt) : j > i => (j + 1 < cnt /\ u[j + 1] = t[j])

\* An entry of the claim's own usage ends on the page before the claim.
FollowsOwn(t, cnt, e) ==
    \E j \in Live(t, cnt) :
        /\ t[j].type = MULTIBOOT_MEMORY_AVAILABLE
        /\ t[j].flags = e.flags
        /\ t[j].end + 1 = e.start

\* C17: a claim that starts where an Available/Unused entry starts and ends
\* before its end (and does not follow an entry of its own usage, with
\* which it could be joined), when the insert does not fail for want of
\* room, takes the entry's slot, the rest of the entry follows it and every
\* later entry moves up one slot.
C17_HeadAlignedInsert ==
    (ncalls > 0 /\ ~ub /\ WellFormed(prev, count)
        /\ HeadHosts(prev, count, claim) # {}
        /\ ~FollowsOwn(prev, count, claim) /\ path # "noshift")
    => \A i \in HeadHosts(prev, count, claim) :
          HeadInserted(prev, count, claim, i, entry)

\* The Available/Unused entries whose tail the claim covers while the entry
\* that follows has the claim's usage and starts right after the claim.
MergeHosts(t, cnt, e) ==
    {i \in Live(t, cnt) :
        /\ t[i].type = MULTIBOOT_MEMORY_AVAILABLE
        /\ t[i].flags = MEMORY_PMAP_UNUSED
        /\ t[i].start < e.start /\ e.end = t[i].end
        /\ i + 1 \in Live(t, cnt)
        /\ t[i + 1].type = MULTIBOOT_MEMORY_AVAILABLE
        /\ t[i + 1].flags = e.flags
        /\ t[i + 1].start = e.end + 1}

\* The table t with entry i + 1 extended leftward to the claim's start and
\* entry i shrunk to end before it; nothing else changes.
TailMerged(t, cnt, e, i, u) ==
    u = [t EXCEPT ![i].end = e.start - 1, ![i + 1].start = e.start]

\* C18: a claim on the tail of an Available/Unused entry, followed by an
\* adjacent entry of the claim's usage, extends that entry leftward and
\* shrinks the current one; no entry is added.
C18_TailMerge ==
    (ncalls > 0 /\ ~ub /\ WellFormed(prev, count)
        /\ MergeHosts(prev, count, claim) # {})
    => \A i \in MergeHosts(prev, count, claim) :
          /\ TailMerged(prev, count, claim, i, entry)
          /\ Cardinality(Live(entry, count)) = Cardinality(Live(prev, count))

\* The entries of the claim's own usage that cover the whole claim.
OwnHosts(t, cnt, e) ==
    {i \in Live(t, cnt) :
        /\ t[i].type = MULTIBOOT_MEMORY_AVAILABLE
        /\ t[i].flags = e.flags
        /\ t[i].start <= e.start /\ e.end <= t[i].end}

\* C19: a claim that an entry of the same usage already covers, at its
\* head, at its tail or strictly inside, leaves the table unchanged.
C19_CoveredReclaimIsNoOp ==
    (ncalls > 0 /\ ~ub /\ WellFormed(prev, count)
        /\ OwnHosts(prev, count, claim) # {})
    => entry = prev

(***************************************************************************)
(* Properties of the storage search                                        *)
(***************************************************************************)
\* The pages that hold a byte of [s, e), as a pair <<first, last>>.
BytePages(s, e) == <<PAGE_NUM(s), PAGE_NUM(e - 1)>>

\* The page ranges a and b share a page.
Meet(a, b) == a[1] <= b[2] /\ b[1] <= a[2]

\* The pages mb_alloc_pages was asked for, starting at the page it returned.
KconfigPages(b, page) == <<page, page + PAGE_NUM(KconfigSize(b))>>

\* C20: the block mb_alloc_pages returns lies past the kernel image and
\* shares no page with the boot information block or with a module.
C20_StorageClearOfCarveOuts ==
    kcfg # 0
    => /\ KconfigPages(boot, kcfg)[1] > BytePages(boot.kstart, boot.kend)[2]
       /\ ~Meet(KconfigPages(boot, kcfg),
                BytePages(boot.addr, boot.addr + boot.len))
       /\ \A i \in 1..Len(boot.tags) :
             boot.tags[i].type = MULTIBOOT_TAG_TYPE_MODULE
             => ~Meet(KconfigPages(boot, kcfg),
                      BytePages(boot.tags[i].w8, boot.tags[i].w12))

(***************************************************************************)
(* Properties of the finished table                                        *)
(***************************************************************************)
\* Page p lies in a live Available entry of table t that is marked u.
RecordedAs(t, cnt, p, u) ==
    \E i \in Live(t, cnt) :
        /\ t[i].type = MULTIBOOT_MEMORY_AVAILABLE
        /\ t[i].flags = u
        /\ t[i].start <= p /\ p <= t[i].end

\* C21: once the map is built and init_memory runs, every page of the block
\* that holds the table is recorded in the table as Available and Kernel.
C21_OwnStorageRecorded ==
    inits = 1
    => \A p \in KconfigPages(boot, kcfg)[1]..BytePages(kcfg * PAGE_SIZE,
                                   kcfg * PAGE_SIZE + KconfigSize(boot))[2] :
          RecordedAs(entry, count, p, MEMORY_PMAP_KERNEL)

\* C25: a valid claim inserted in a table without inverted entries leaves
\* every live entry with start <= end, whichever boundary of the hosting
\* entry the claim touches.
C25_NoInvertedEntry ==
    (ncalls > 0 /\ ~ub /\ WellFormed(prev, count)
        /\ ValidClaim(prev, count, claim))
    => NoneInverted(entry, count)

(***************************************************************************)
(* Properties of the value mb_pmap_add returns                             *)
(***************************************************************************)
\* The claim's pages are all recorded for its consumer in table t.
Accepted(t, cnt, e) ==
    \A p \in e.start..e.end : RecordedAs(t, cnt, p, e.flags)

\* C26: mb_pmap_add returns non-zero exactly when it accepted the claim: a
\* valid claim is reported as success at whatever index it lands, and a claim
\* that no Available entry hosts leaves the table alone and returns 0.
C26_ReturnTellsAcceptance ==
    (ncalls > 0 /\ ~ub /\ WellFormed(prev, count))
    => /\ ValidClaim(prev, count, claim) => ret # 0
       /\ path = "nomatch" => ret = 0
       /\ ret # 0 => Accepted(entry, count, claim)

\* The entries that end on the page before the claim and belong to another
\* consumer than the claim's.
ForeignBefore(t, cnt, e) ==
    {i \in Live(t, cnt) :
        /\ t[i].type = MULTIBOOT_MEMORY_AVAILABLE
        /\ t[i].flags \in Usages
        /\ t[i].flags # e.flags
        /\ t[i].end + 1 = e.start}

\* C27: a valid claim that begins on the page after an entry another
\* consumer holds is accepted and recorded; it is not reported as an overlap.
C27_AdjacentClaimAccepted ==
    (ncalls > 0 /\ ~ub /\ WellFormed(prev, count)
        /\ ValidClaim(prev, count, claim)
        /\ ForeignBefore(prev, count, claim) # {})
    => path # "overlap" /\ Accepted(entry, count, claim)

(***************************************************************************)
(* Properties of the module carve-outs                                     *)
(***************************************************************************)
\* The turns of the module loop of mb_pmap_init that have run.
ModuleSteps == {i \in 1..Len(order) : order[i].step = "module"}

\* C28: the modules counted for the table's capacity and the Module claims
\* mb_pmap_init makes are the MODULE tags and nothing else: never more
\* Module claims than MODULE tags, each claim the byte range of a MODULE tag,
\* and one claim per MODULE tag once the build has succeeded.
C28_ModulesAreModuleTags ==
    /\ Cardinality(ModuleSteps) <= ModuleCount(boot)
    /\ (ModuleSteps # {} /\ claim.flags = MEMORY_PMAP_MODULE)
       => \E i \in 1..Len(boot.tags) :
             /\ boot.tags[i].type = MULTIBOOT_TAG_TYPE_MODULE
             /\ claim = ModuleClaim(boot.tags[i])
    /\ kcfg # 0 => count = 2 * (RawRegionCount(boot) + ModuleCount(boot) + 2)
    /\ inits = 1 => Cardinality(ModuleSteps) = ModuleCount(boot)

(***************************************************************************)
(* Properties of the byte to page conversion                               *)
(***************************************************************************)
\* The byte range [s, e) of the carve-out the build step claims.
CarveOut(name) ==
    IF name = "kernel" THEN <<boot.kstart, boot.kend>>
    ELSE IF name = "loader" THEN <<boot.addr, boot.addr + boot.len>>
    ELSE IF name = "module"
    THEN <<ModuleWalk(boot)[modi].w8, ModuleWalk(boot)[modi].w12>>
    ELSE <<kcfg * PAGE_SIZE, kcfg * PAGE_SIZE + KconfigSize(boot)>>

\* C29: the claim of every build step is the pages that hold a byte of its
\* carve-out [s, e), floor(s/4096) .. floor((e-1)/4096), and the table is
\* seeded with floor(addr/4096) .. floor((addr+len)/4096) - 1 per raw region.
C29_BytesToPages ==
    /\ (order # <<>> /\ order[Len(order)].step \in ClaimSteps)
       => <<claim.start, claim.end>>
              = BytePages(CarveOut(order[Len(order)].step)[1],
                          CarveOut(order[Len(order)].step)[2])
    /\ (order # <<>> /\ mb_tag_find(boot, MULTIBOOT_TAG_TYPE_MMAP) # 0)
       => \A i \in 1..Len(boot.mmap) :
             /\ seeded[i - 1].start = boot.mmap[i].addr \div PAGE_SIZE
             /\ seeded[i - 1].end
                    = ((boot.mmap[i].addr + boot.mmap[i].len) \div PAGE_SIZE) - 1

(***************************************************************************)
(* Properties of kmalloc                                                   *)
(***************************************************************************)
\* The size rounded up to a multiple of 8, without wrap.
RoundedUp(size) == ((size + 7) \div 8) * 8

\* The bytes [ptr, ptr + size) of two blocks share no byte.
Apart(a, b) == a.ptr + a.size <= b.ptr \/ b.ptr + b.size <= a.ptr

\* C30: every kmalloc call returns NULL, exactly when the size is 0 or the
\* size rounded up to 8 does not fit in the rest of the pool, or a block of
\* at least size bytes inside memory_pool that shares no byte with an
\* earlier block; pool_offset stays a multiple of 8, never decreases and
\* never exceeds the size of the pool.
C30_KmallocBlocksSafe ==
    /\ pool_offset % 8 = 0
    /\ pool_offset <= POOL_SIZE
    /\ \A i \in 1..Len(blocks) :
          /\ blocks[i].was <= blocks[i].off
          /\ blocks[i].null
             <=> (blocks[i].size = 0
                    \/ RoundedUp(blocks[i].size) > POOL_SIZE - blocks[i].was)
          /\ ~blocks[i].null
             => /\ blocks[i].ptr + blocks[i].size <= POOL_SIZE
                /\ \A j \in 1..(i - 1) :
                      ~blocks[j].null => Apart(blocks[j], blocks[i])

(***************************************************************************)
(* Properties of __pmap_init and pmap_init of init.c                       *)
(***************************************************************************)
\* The slots of the table that hold an entry: typed, below the sentinel.
Held(t, cap) == {i \in 0..(cap - 1) : t[i].type # 0}

\* Every page of first .. last lies in an entry of the kind ty that the
\* table holds.  A page that lies in none is first itself or the page after
\* the end of such an entry, so these pages are the ones looked at.
Represented(t, cap, first, last, ty) ==
    LET kind == {i \in Held(t, cap) : t[i].type = ty /\ t[i].start <= t[i].end}
        edges == {first} \cup {t[i].end + 1 : i \in kind}
    IN  \A p \in edges :
           (first <= p /\ p <= last)
           => \E i \in kind : t[i].start <= p /\ p <= t[i].end

\* The pages of raw region i of the boot information.
RegionPages(b, i) ==
    <<mb_mmap_start(b, i) \div PAGE_SIZE, (mb_mmap_end(b, i) \div PAGE_SIZE) - 1>>

\* __pmap_init has returned a non-zero value: pmap_init claims its block,
\* or has done so.
MapBuilt == pc \in {"i_self", "init_memory"} \/ inits = 1

\* C22: when __pmap_init succeeds, every raw region of the boot information
\* is in the table: each of its pages lies in an entry of the region's kind,
\* also when a claim split an earlier region before the later ones were
\* written.
C22_EveryRegionSeeded ==
    (MapBuilt /\ ~ub)
    => \A i \in 0..(mb_mmap_count(boot) - 1) :
          Represented(entry, InitCapacity(boot), RegionPages(boot, i)[1],
                      RegionPages(boot, i)[2], mb_mmap_type(boot, i))

\* The pages first .. last lie in one Available raw region of the boot
\* information.
InAvailable(b, pages) ==
    \E i \in 0..(mb_mmap_count(b) - 1) :
        /\ mb_mmap_type(b, i) = MULTIBOOT_MEMORY_AVAILABLE
        /\ RegionPages(b, i)[1] <= pages[1]
        /\ pages[2] <= RegionPages(b, i)[2]

\* Every page of first .. last is recorded for the consumer u.
RangeRecorded(t, cap, pages, u) ==
    \A p \in pages[1]..pages[2] : RecordedAs(t, cap, p, u)

\* The carve-outs of the boot information with their consumers.
CarveOuts(b) ==
    {<<BytePages(b.kstart, b.kend), MEMORY_PMAP_KERNEL>>,
     <<BytePages(mb_mbi_start(b), mb_mbi_end(b)), MEMORY_PMAP_LOADER>>}
    \cup {<<BytePages(mb_mod_start(b, m), mb_mod_end(b, m)), MEMORY_PMAP_MODULE>> :
             m \in 0..(mb_mod_count(b) - 1)}

\* C23: when __pmap_init succeeds, the kernel image, the boot information
\* block and every module that lies in Available memory is recorded in the
\* table as Kernel, Loader or Module.
C23_EveryCarveOutClaimed ==
    (MapBuilt /\ ~ub)
    => \A c \in CarveOuts(boot) :
          InAvailable(boot, c[1])
          => RangeRecorded(entry, InitCapacity(boot), c[1], c[2])

\* C24: the map builder terminates: every run of pmap_init, with the loops
\* of __pmap_init over the regions and the modules, reaches its return.
C24_MapBuildTerminates == <>(pc = "returned")

====
